---- MODULE Spec2Model ----
(***************************************************************************)
(* A model of the multi-agent demonstration scripts:                       *)
(*   - the no-tools MultiAgentSystem with runInteractiveSession and main   *)
(*     and its try/catch (src/multi-agent-no-tools.js, lines 1-120),       *)
(*   - SharedMemory, the two tools, executeComplexTask and                 *)
(*     demonstrateCommunication (the same file, lines 121-359),            *)
(*   - the MultiAgentSystem whose agents carry tools                       *)
(*     (src/unnamed/part_000).                                             *)
(* Strings are sequences of one-character strings, so that toLowerCase,    *)
(* String.prototype.includes and /\d/.test are computed, not assumed.      *)
(* An agent call, run(agent, input) or agent.run(input), is made by the    *)
(* external library: it is in flight until the environment resolves it     *)
(* with a reply or rejects it with a thrown value.                         *)
(***************************************************************************)
EXTENDS Integers, Sequences, FiniteSets, TLC

VARIABLES
    prog,        \* which script runs: "main", "call", "advanced"
    session,     \* the list of (variant, query) the query loop iterates
    idx,         \* position of the for-of loop in session (1-based)
    pc,          \* where the driver is suspended
    inflight,    \* the agent calls issued and not yet settled
    nextId,      \* id of the next call issued
    analysis,    \* coordinatorResponse of the processQuery call in progress
    responses,   \* the responses object of the processQuery call in progress
    results,     \* the result objects returned by processQuery, in order
    events,      \* observable trace: calls issued, settled, lines printed
    thrown,      \* the value a rejected call threw, NoThrow if none
    mainState,   \* promise of main: "running", "completed", "rejected"
    mem,         \* the SharedMemory of each system: data and conversationHistory
    clock,       \* the time new Date() read last (it ticks at every reading)
    toolRuns,    \* number of tool executions started
    toolReturn,  \* what the last tool execution returned
    task,        \* the constants executeComplexTask has assigned so far
    advResult    \* the object executeComplexTask returned, NoResult before

vars == <<prog, session, idx, pc, inflight, nextId, analysis, responses,
          results, events, thrown, mainState, mem, clock, toolRuns,
          toolReturn, task, advResult>>

-----------------------------------------------------------------------------
(* Strings *)

Upper == <<"A","B","C","D","E","F","G","H","I","J","K","L","M",
           "N","O","P","Q","R","S","T","U","V","W","X","Y","Z">>
Lower == <<"a","b","c","d","e","f","g","h","i","j","k","l","m",
           "n","o","p","q","r","s","t","u","v","w","x","y","z">>

\* the lower-case letter of each upper-case letter
LowerOf == [c \in {Upper[i] : i \in 1..26} |->
              Lower[CHOOSE i \in 1..26 : Upper[i] = c]]

\* String.prototype.toLowerCase on one character
LowerChar(c) == IF c \in DOMAIN LowerOf THEN LowerOf[c] ELSE c

\* String.prototype.toLowerCase
ToLowerCase(s) == [i \in 1..Len(s) |-> LowerChar(s[i])]

\* String.prototype.includes
Includes(s, sub) ==
    \E i \in 0..(Len(s) - Len(sub)) : SubSeq(s, i + 1, i + Len(sub)) = sub

\* the character class \d of a JavaScript regular expression
IsDigit(c) == c \in {"0","1","2","3","4","5","6","7","8","9"}

\* /\d/.test(s)
DigitTest(s) == \E i \in 1..Len(s) : IsDigit(s[i])

RECURSIVE Concat(_)
Concat(ss) == IF ss = <<>> THEN <<>> ELSE Head(ss) \o Concat(Tail(ss))

\* the keywords of the router
KwHistory    == <<"h","i","s","t","o","r","y">>
KwHistorical == <<"h","i","s","t","o","r","i","c","a","l">>
KwScience    == <<"s","c","i","e","n","c","e">>
KwScientific == <<"s","c","i","e","n","t","i","f","i","c">>
KwMath       == <<"m","a","t","h">>
KwCalculate  == <<"c","a","l","c","u","l","a","t","e">>
KwEquation   == <<"e","q","u","a","t","i","o","n">>
KwApiKey     == <<"O","P","E","N","A","I","_","A","P","I","_","K","E","Y">>


-----------------------------------------------------------------------------
(* Query strings *)

\* the pieces the checked query strings are built from: every keyword of the
\* router, some in upper or mixed case, the beginning of a keyword
\* ("histor"), which triggers nothing, a digit, and a piece that holds two
\* keywords
Fragments == {
    <<"H","I","S","T","O","R","I","C","A","L">>,
    <<"h","i","s","t","o","r">>,
    <<"S","c","i","e","n","c","e">>,
    <<"s","c","i","e","n","t","i","f","i","c">>,
    <<"m","a","t","h">>,
    <<"C","a","l","c","u","l","a","t","e">>,
    <<"e","q","u","a","t","i","o","n">>,
    <<"7">>,
    <<"H","i","s","t","o","r","y"," ","a","n","d"," ","S","c","i","e","n","c","e">>
}

MaxFrags == 2

RECURSIVE SeqsUpTo(_, _)
SeqsUpTo(S, n) ==
    IF n = 0 THEN {<<>>}
    ELSE LET shorter == SeqsUpTo(S, n - 1)
         IN  shorter \cup {Append(s, x) : s \in {t \in shorter : Len(t) = n - 1}, x \in S}

\* the query strings processQuery is called with in the "call" program
Queries == {Concat(fs) : fs \in SeqsUpTo(Fragments, MaxFrags)}

\* the query strings processQuery is called with twice in a row
MaxPairFrags == 1

PairQueries == {Concat(fs) : fs \in SeqsUpTo(Fragments, MaxPairFrags)}

\* exampleQueries of multi-agent-no-tools.js
QHistory == 
    <<"T","e","l","l"," ","m","e"," ","a"," ","f","u","n"," ","h","i","s","t","o","r","y"," ","f","a","c","t">>
QScience == 
    <<"W","h","a","t","'","s"," ","a","n"," ","i","n","t","e","r","e","s","t","i","n","g"," ","s","c","i","e","n","c","e"," ","f","a","c","t","?">>
QMath    == 
    <<"E","x","p","l","a","i","n"," ","h","o","w"," ","t","o"," ","s","o","l","v","e"," ","a"," ","q","u","a","d","r","a","t","i","c"," ","e","q","u","a","t","i","o","n">>
QComplex == 
    <<"G","i","v","e"," ","m","e"," ","b","o","t","h"," ","a"," ","h","i","s","t","o","r","y"," ","a","n","d"," ","s","c","i","e","n","c","e"," ","f","a","c","t">>
exampleQueries == <<QHistory, QScience, QMath, QComplex>>

-----------------------------------------------------------------------------
(* The agents and the keyword router of the two MultiAgentSystem variants *)

Variants == {"notools", "tools"}

\* this.agents of the no-tools MultiAgentSystem: role key -> agent name
NoToolsAgents ==
    [history |-> "History Expert", science |-> "Science Expert",
     math |-> "Math Expert", coordinator |-> "Coordinator"]

\* this.agents of the MultiAgentSystem whose agents carry tools
ToolsAgents ==
    [history |-> "History Expert", science |-> "Science Expert",
     math |-> "Math Expert", coordinator |-> "Coordinator"]

AgentsOf(v) == IF v = "notools" THEN NoToolsAgents ELSE ToolsAgents

\* a history test that forgets toLowerCase
HistoryTestCaseSensitive(q) ==
    Includes(q, KwHistory) \/ Includes(q, KwHistorical)

\* the conditions of the three if statements of the no-tools processQuery
HistoryTest(q) ==
    Includes(ToLowerCase(q), KwHistory) \/ Includes(ToLowerCase(q), KwHistorical)

ScienceTest(q) ==
    Includes(ToLowerCase(q), KwScience) \/ Includes(ToLowerCase(q), KwScientific)

MathTest(q) ==
    \/ Includes(ToLowerCase(q), KwMath)
    \/ Includes(ToLowerCase(q), KwCalculate)
    \/ Includes(ToLowerCase(q), KwEquation)
    \/ DigitTest(q)

\* a math test of the tools variant without the /\d/ test
ToolsMathTestNoDigit(q) ==
    \/ Includes(ToLowerCase(q), KwMath)
    \/ Includes(ToLowerCase(q), KwCalculate)
    \/ Includes(ToLowerCase(q), KwEquation)

\* the same three conditions in the processQuery of the tools variant
ToolsHistoryTest(q) ==
    Includes(ToLowerCase(q), KwHistory) \/ Includes(ToLowerCase(q), KwHistorical)

ToolsScienceTest(q) ==
    Includes(ToLowerCase(q), KwScience) \/ Includes(ToLowerCase(q), KwScientific)

ToolsMathTest(q) ==
    \/ Includes(ToLowerCase(q), KwMath)
    \/ Includes(ToLowerCase(q), KwCalculate)
    \/ Includes(ToLowerCase(q), KwEquation)
    \/ DigitTest(q)

\* responses.length === 0: an object has no length, the test never holds
FallbackTestNoKeys(resp) == FALSE

\* Object.keys(responses).length === 0
FallbackTest(resp) == Cardinality(DOMAIN resp) = 0

\* the science test placed before the history test
StagesScienceFirst == <<"science", "history", "math", "coordinator">>

\* the four conditional calls of processQuery, in program order
Stages == <<"history", "science", "math", "coordinator">>

\* whether the if statement of stage k calls its agent
Triggered(v, k, q, resp) ==
    CASE k = "history"     -> IF v = "notools" THEN HistoryTest(q) ELSE ToolsHistoryTest(q)
      [] k = "science"     -> IF v = "notools" THEN ScienceTest(q) ELSE ToolsScienceTest(q)
      [] k = "math"        -> IF v = "notools" THEN MathTest(q)    ELSE ToolsMathTest(q)
      [] k = "coordinator" -> FallbackTest(resp)

\* the argument the stage's call passes: the no-tools variant passes the
\* query string, the tools variant wraps it in an object
ArgForm(v, k) ==
    IF v = "notools" \/ k = "coordinator" THEN "query"
    ELSE CASE k = "history" -> "topic"
           [] k = "science" -> "field"
           [] k = "math"    -> "expression"

\* the first if statement at or after position i whose condition holds,
\* 0 when control reaches the return statement
RECURSIVE NextCall(_, _, _, _)
NextCall(v, q, i, resp) ==
    IF i > Len(Stages) THEN 0
    ELSE IF Triggered(v, Stages[i], q, resp) THEN i
    ELSE NextCall(v, q, i + 1, resp)

StageIndex(k) == CHOOSE i \in 1..Len(Stages) : Stages[i] = k

-----------------------------------------------------------------------------
(* What the environment can answer to an agent call *)

\* the values a call can resolve with
Replies == {"reply_a", "reply_b"}

NoReply == "none"

\* error messages: one that holds the key name, one that holds it in lower
\* case only
MsgApiKey ==
    <<"T","h","e"," ","O","P","E","N","A","I","_","A","P","I","_","K","E","Y"," ","e","n","v","i","r","o","n","m","e","n","t"," ","v","a","r","i","a","b","l","e"," ","i","s"," ","m","i","s","s","i","n","g">>
MsgLowerKey ==
    <<"m","i","s","s","i","n","g"," ","o","p","e","n","a","i","_","a","p","i","_","k","e","y">>
Messages == {MsgApiKey, MsgLowerKey}

\* the values a call can reject with: an Error with a message string; null or
\* undefined (reading .message of it throws); a value with no message
\* property, such as a thrown string (its .message is undefined)
Throwables ==
    {[kind |-> "Error", message |-> m] : m \in Messages}
    \cup {[kind |-> "nullish", message |-> <<>>], [kind |-> "nomessage", message |-> <<>>]}

NoThrow == [kind |-> "none", message |-> <<>>]

-----------------------------------------------------------------------------
(* Events and calls *)

Ev(e, who, run) == [e |-> e, who |-> who, run |-> run]

\* a call in flight: who issued it ("driver" or "tool"), on which system,
\* to which agent, with which kind of argument; a call issued by
\* communicate_with_agent also carries the tool's targetAgent and message
Call(id, by, sys, agent, form, target, msg) ==
    [id |-> id, by |-> by, sys |-> sys, agent |-> agent, form |-> form,
     target |-> target, msg |-> msg]

DriverCall(id, sys, agent, form) == Call(id, "driver", sys, agent, form, <<>>, "")

\* a call whose promise is not awaited stays in flight while the caller goes on
NotAwaited(c) == {}

\* the calls an await expression takes out of flight when it resumes
Awaited(c) == {c}

DriverCalls == {c \in inflight : c.by = "driver"}
ToolCalls   == {c \in inflight : c.by = "tool"}

queryVars == <<session, idx, analysis, responses, results>>
advVars   == <<mem, clock, toolRuns, toolReturn, task, advResult>>

-----------------------------------------------------------------------------
(* The query loop: processQuery, runInteractiveSession, main *)

\* the sessions of the "call" program: processQuery is called once with any
\* query string on either variant, or twice with the same (shorter) query
\* string, on the no-tools system and then on either variant
CallSessions ==
    {<<[variant |-> v, query |-> q]>> : q \in Queries, v \in Variants}
    \cup
    {<<[variant |-> "notools", query |-> q], [variant |-> v, query |-> q]>> :
        q \in PairQueries, v \in Variants}

\* the session of main: runInteractiveSession iterates exampleQueries
MainSession == [i \in 1..Len(exampleQueries) |->
                   [variant |-> "notools", query |-> exampleQueries[i]]]

Cur == session[idx]

\* the object processQuery returns
Result(cur, a, resp) ==
    [variant |-> cur.variant, query |-> cur.query,
     coordinatorAnalysis |-> a, agentResponses |-> resp]

\* a loop that logs no result
ResultLinesSilent(p, run) == <<>>

\* the lines runInteractiveSession prints after processQuery returned
ResultLines(p, run) == IF p = "main" THEN <<Ev("print", "results", run)>> ELSE <<>>

\* The continuation of processQuery after the call c settled, n being the
\* first if statement from the current position on whose condition holds
\* (0 if none): that statement issues its call and suspends; if there is
\* none the result is returned to the loop.
ResumeAt(c, n, a, resp, evs) ==
    /\ analysis' = a
    /\ responses' = resp
    /\ IF n = 0
       THEN /\ inflight' = inflight \ Awaited(c)
            /\ nextId' = nextId
            /\ results' = Append(results, Result(Cur, a, resp))
            /\ events' = evs \o ResultLines(prog, idx)
            /\ idx' = idx + 1
            /\ pc' = "loop"
       ELSE /\ inflight' = (inflight \ Awaited(c)) \cup
                  {DriverCall(nextId, Cur.variant,
                              AgentsOf(Cur.variant)[Stages[n]],
                              ArgForm(Cur.variant, Stages[n]))}
            /\ nextId' = nextId + 1
            /\ results' = results
            /\ events' = Append(evs, Ev("call", AgentsOf(Cur.variant)[Stages[n]], idx))
            /\ idx' = idx
            /\ pc' = Stages[n]
    /\ UNCHANGED <<prog, session, thrown, mainState, advVars>>

\* a router that lets the coordinator's analysis decide: a reply "reply_b"
\* makes it skip the history test
ResumeRoutedByAnalysis(c, i, a, resp, evs) ==
    ResumeAt(c, NextCall(Cur.variant, Cur.query,
                         IF i = 1 /\ a = "reply_b" THEN 2 ELSE i, resp),
             a, resp, evs)

\* the if statements are evaluated on the query and the responses alone
Resume(c, i, a, resp, evs) ==
    ResumeAt(c, NextCall(Cur.variant, Cur.query, i, resp), a, resp, evs)

\* for (const query of exampleQueries) { await this.processQuery(query) ...:
\* processQuery logs the query and calls the coordinator for its analysis
ProcessQueryStart ==
    /\ prog \in {"main", "call"}
    /\ pc = "loop"
    /\ idx <= Len(session)
    /\ inflight' = inflight \cup
           {DriverCall(nextId, Cur.variant, AgentsOf(Cur.variant).coordinator,
                       "analysis")}
    /\ nextId' = nextId + 1
    /\ events' = events \o <<Ev("print", "processing", idx),
                             Ev("call", AgentsOf(Cur.variant).coordinator, idx)>>
    /\ pc' = "analysis"
    /\ analysis' = NoReply
    /\ responses' = <<>>
    /\ UNCHANGED <<prog, session, idx, results, thrown, mainState, advVars>>

\* the analysis call resolves: the reply is logged, responses = {} and the
\* if statements run
AnalysisReturns ==
    /\ prog \in {"main", "call"}
    /\ pc = "analysis"
    /\ \E c \in DriverCalls, r \in Replies :
          Resume(c, 1, r, <<>>,
                 events \o <<Ev("return", c.agent, idx),
                             Ev("print", "analysis", idx)>>)

\* the call of stage k resolves: responses[k] = reply, and the if statements
\* after it run
StageReturns(k) ==
    /\ prog \in {"main", "call"}
    /\ \E c \in DriverCalls, r \in Replies :
          Resume(c, StageIndex(k) + 1, analysis, (k :> r) @@ responses,
                 Append(events, Ev("return", c.agent, idx)))

\* responses.history = await run(this.agents.history, query)
HistoryReturns ==
    /\ pc = "history"
    /\ StageReturns("history")

\* responses.science = await run(this.agents.science, query)
ScienceReturns ==
    /\ pc = "science"
    /\ StageReturns("science")

\* responses.math = await run(this.agents.math, query)
MathReturns ==
    /\ pc = "math"
    /\ StageReturns("math")

\* responses.coordinator = await run(this.agents.coordinator, query)
FallbackReturns ==
    /\ pc = "coordinator"
    /\ StageReturns("coordinator")

\* a catch block that looks for the key name whatever the case of the message
CatchLinesAnyCase(v, run) ==
    CASE v.kind = "nullish"   -> <<>>
      [] v.kind = "nomessage" -> <<Ev("print", "error", run)>>
      [] v.kind = "Error"     ->
            IF Includes(ToLowerCase(v.message), ToLowerCase(KwApiKey))
            THEN <<Ev("print", "error", run), Ev("print", "setup", run)>>
            ELSE <<Ev("print", "error", run)>>

\* the catch block of main, run with the caught value v: what it prints
\* before it completes or throws itself.  console.error evaluates
\* error.message first: for null or undefined that throws before anything
\* is printed; for a value without a message it prints, and the call of
\* .includes on undefined throws.
CatchLines(v, run) ==
    CASE v.kind = "nullish"   -> <<>>
      [] v.kind = "nomessage" -> <<Ev("print", "error", run)>>
      [] v.kind = "Error"     ->
            IF Includes(v.message, KwApiKey)
            THEN <<Ev("print", "error", run), Ev("print", "setup", run)>>
            ELSE <<Ev("print", "error", run)>>

\* a catch block that ends by throwing the value again
CatchRethrows(v) == FALSE

\* whether the catch block of main runs to its end with the caught value v
CatchCompletes(v) == v.kind = "Error"

\* a call of the query loop rejects with v: processQuery and
\* runInteractiveSession reject with it; main catches it, the direct caller
\* of processQuery has no handler
CallThrows ==
    /\ prog \in {"main", "call"}
    /\ pc \in {"analysis", "history", "science", "math", "coordinator"}
    /\ \E c \in DriverCalls, v \in Throwables :
          /\ inflight' = inflight \ Awaited(c)
          /\ thrown' = v
          /\ events' = Append(events, Ev("throw", c.agent, idx)) \o
                          (IF prog = "main" THEN CatchLines(v, idx) ELSE <<>>)
          /\ mainState' = IF prog = "main" /\ CatchCompletes(v)
                          THEN "completed" ELSE "rejected"
    /\ pc' = "done"
    /\ UNCHANGED <<prog, session, idx, nextId, analysis, responses, results, advVars>>

\* the loop is over: runInteractiveSession returns and main completes
LoopEnd ==
    /\ prog \in {"main", "call"}
    /\ pc = "loop"
    /\ idx > Len(session)
    /\ pc' = "done"
    /\ mainState' = "completed"
    /\ UNCHANGED <<prog, inflight, nextId, events, thrown, queryVars, advVars>>

-----------------------------------------------------------------------------
(* SharedMemory and the two tools of advanced-multi-agent.js *)

Undefined == [t |-> "undefined", s |-> ""]
Str(s)    == [t |-> "string", s |-> s]

\* the keys and values the access_memory tool is called with; value is
\* optional in the input schema, so it can be undefined
MemKeys   == {"k1", "k2"}
MemValues == {Str(""), Str("v"), Undefined}

\* truthiness of a JavaScript value, as the || operator tests it
Truthy(v) == v.t = "string" /\ v.s # ""

\* new SharedMemory()
NewSharedMemory == [data |-> <<>>, conversationHistory |-> <<>>]

\* SharedMemory.set
SMSet(m, k, v) == [m EXCEPT !.data = (k :> v) @@ m.data]

\* SharedMemory.get
SMGet(m, k) == IF k \in DOMAIN m.data THEN m.data[k] ELSE Undefined

\* an addToHistory that puts the entry in front (unshift for push)
SMAddToHistoryFront(m, agent, message, t) ==
    [m EXCEPT !.conversationHistory =
        <<[agent |-> agent, message |-> message, timestamp |-> t]>> \o @]

\* SharedMemory.addToHistory, at time t
SMAddToHistory(m, agent, message, t) ==
    [m EXCEPT !.conversationHistory =
        Append(@, [agent |-> agent, message |-> message, timestamp |-> t])]

\* SharedMemory.getHistory
SMGetHistory(m) == m.conversationHistory

\* what a tool execution returned
ToolReturn(tool, kind, key, target, text) ==
    [tool |-> tool, kind |-> kind, key |-> key, target |-> target, text |-> text]

NoToolReturn == ToolReturn("none", "none", "", <<>>, "")

\* memoryTool.execute with action 'read':
\*   `Memory value for "${key}": ${sharedMemory.get(key) || 'not found'}`
MemoryReadReturn(m, k) ==
    ToolReturn("access_memory", "read", k, <<>>,
               IF Truthy(SMGet(m, k)) THEN SMGet(m, k).s ELSE "not found")

\* memoryTool.execute with action 'write': `Stored "${value}" with key "${key}"`
MemoryWriteReturn(k, v) ==
    ToolReturn("access_memory", "write", k, <<>>,
               IF v = Undefined THEN "undefined" ELSE v.s)

\* role keys of the agents objects
KeyResearcher == <<"r","e","s","e","a","r","c","h","e","r">>
KeyAnalyst    == <<"a","n","a","l","y","s","t">>
KeyWriter     == <<"w","r","i","t","e","r">>
KeyManager    == <<"m","a","n","a","g","e","r">>

\* this.agents of AdvancedMultiAgentSystem
AdvancedAgents ==
    (KeyResearcher :> "Researcher") @@ (KeyAnalyst :> "Analyst") @@
    (KeyWriter :> "Writer") @@ (KeyManager :> "Manager")

\* this.agents of AgentCommunicationExample
CommunicationAgents ==
    (KeyResearcher :> "Researcher") @@ (KeyAnalyst :> "Analyst") @@
    (KeyWriter :> "Writer")

SystemAgents(sys) ==
    IF sys = "advanced" THEN AdvancedAgents ELSE CommunicationAgents

\* the lower-case property names an object literal inherits from
\* Object.prototype
InheritedKeys ==
    {<<"c","o","n","s","t","r","u","c","t","o","r">>,
     <<"_","_","p","r","o","t","o","_","_">>}

\* agentSystem.agents[targetAgent.toLowerCase()]: an agent, an inherited
\* property (truthy, and without a run method), or undefined
Lookup(sys, targetAgent) ==
    LET key == ToLowerCase(targetAgent) IN
    IF key \in DOMAIN SystemAgents(sys)
    THEN [kind |-> "agent", agent |-> SystemAgents(sys)[key]]
    ELSE IF key \in InheritedKeys
    THEN [kind |-> "inherited", agent |-> ""]
    ELSE [kind |-> "undefined", agent |-> ""]

\* the targetAgent strings communicate_with_agent is called with
Targets ==
    {<<"R","e","s","e","a","r","c","h","e","r">>,
     <<"m","a","n","a","g","e","r">>,
     <<"n","o","b","o","d","y">>,
     <<"C","o","n","s","t","r","u","c","t","o","r">>}

ToolMessages == {"msg"}

\* total number of tool executions the external library starts
MaxToolRuns == 2

\* access_memory with action 'read', run by the library inside the agent call c
MemoryRead ==
    /\ prog = "advanced"
    /\ toolRuns < MaxToolRuns
    /\ \E c \in inflight, k \in MemKeys :
          toolReturn' = MemoryReadReturn(mem[c.sys], k)
    /\ toolRuns' = toolRuns + 1
    /\ UNCHANGED <<prog, pc, inflight, nextId, events, thrown, mainState,
                   queryVars, mem, clock, task, advResult>>

\* access_memory with action 'write'
MemoryWrite ==
    /\ prog = "advanced"
    /\ toolRuns < MaxToolRuns
    /\ \E c \in inflight, k \in MemKeys, v \in MemValues :
          /\ mem' = [mem EXCEPT ![c.sys] = SMSet(@, k, v)]
          /\ toolReturn' = MemoryWriteReturn(k, v)
    /\ toolRuns' = toolRuns + 1
    /\ UNCHANGED <<prog, pc, inflight, nextId, events, thrown, mainState,
                   queryVars, clock, task, advResult>>

\* communicate_with_agent up to its await: the target is looked up; if it is
\* undefined the error string is returned; if it is an inherited property
\* target.run is not a function and the execution throws; otherwise
\* target.run(message) is in flight
CommunicateStart ==
    /\ prog = "advanced"
    /\ toolRuns < MaxToolRuns
    /\ \E c \in inflight, targetAgent \in Targets, message \in ToolMessages :
          LET target == Lookup(c.sys, targetAgent) IN
          CASE target.kind = "undefined" ->
                 /\ toolReturn' = ToolReturn("communicate_with_agent", "not_found",
                                             "", targetAgent, "")
                 /\ UNCHANGED <<inflight, nextId>>
            [] target.kind = "inherited" ->
                 /\ toolReturn' = ToolReturn("communicate_with_agent", "threw",
                                             "", targetAgent, "")
                 /\ UNCHANGED <<inflight, nextId>>
            [] target.kind = "agent" ->
                 /\ inflight' = inflight \cup
                       {Call(nextId, "tool", c.sys, target.agent, "message",
                             targetAgent, message)}
                 /\ nextId' = nextId + 1
                 /\ toolReturn' = toolReturn
    /\ toolRuns' = toolRuns + 1
    /\ UNCHANGED <<prog, pc, events, thrown, mainState, queryVars, mem, clock,
                   task, advResult>>

\* communicate_with_agent after its await: the target's reply is pushed on
\* the history with the time read at that moment, and the string is returned
CommunicateReturns ==
    /\ prog = "advanced"
    /\ \E c \in ToolCalls, r \in Replies :
          /\ inflight' = inflight \ Awaited(c)
          /\ clock' = clock + 1
          /\ mem' = [mem EXCEPT ![c.sys] =
                        SMAddToHistory(@, c.target,
                                       [message |-> c.msg, response |-> r],
                                       clock + 1)]
          /\ toolReturn' = ToolReturn("communicate_with_agent", "response",
                                      "", c.target, r)
    /\ UNCHANGED <<prog, pc, nextId, events, thrown, mainState, queryVars,
                   toolRuns, task, advResult>>

\* target.run(message) rejects: the tool execution rejects with it
CommunicateThrows ==
    /\ prog = "advanced"
    /\ \E c \in ToolCalls :
          /\ inflight' = inflight \ Awaited(c)
          /\ toolReturn' = ToolReturn("communicate_with_agent", "threw",
                                      "", c.target, "")
    /\ UNCHANGED <<prog, pc, nextId, events, thrown, mainState, queryVars, mem,
                   clock, toolRuns, task, advResult>>

-----------------------------------------------------------------------------
(* The drivers of advanced-multi-agent.js *)

NoResult == [returned |-> FALSE]

\* the replies of the calls executeComplexTask and demonstrateCommunication
\* await
TaskReplies == {"reply_a"}

\* the object executeComplexTask returns
TaskResult(tk, m) ==
    [returned |-> TRUE, plan |-> tk.plan, researchResult |-> tk.researchResult,
     analysisResult |-> tk.analysisResult, report |-> tk.report,
     finalResult |-> tk.finalResult, sharedMemory |-> m.data,
     conversationHistory |-> SMGetHistory(m)]

\* a workflow whose analysis step comes before its research step
TaskAgentsAnalystFirst ==
    <<KeyManager, KeyAnalyst, KeyResearcher, KeyWriter, KeyManager>>

\* the agents executeComplexTask calls, in program order: plan, research,
\* analysis, report, review
TaskAgents == <<KeyManager, KeyResearcher, KeyAnalyst, KeyWriter, KeyManager>>

\* the agents demonstrateCommunication calls, in program order
CommAgents == <<KeyResearcher, KeyAnalyst, KeyWriter>>

\* One step of a driver: the awaited call c resolved with r, which is
\* assigned to the constant named field; the lines in prints are logged and
\* the call of the next statement is issued on system sys to the agent
\* under key.
AdvStep(c, r, field, prints, sys, key, nextPc) ==
    /\ ToolCalls = {}
    /\ task' = (field :> r) @@ task
    /\ inflight' = (inflight \ Awaited(c)) \cup
          {DriverCall(nextId, sys, SystemAgents(sys)[key], "prompt")}
    /\ nextId' = nextId + 1
    /\ events' = events \o <<Ev("return", c.agent, 0)>> \o prints \o
                    <<Ev("call", SystemAgents(sys)[key], 0)>>
    /\ pc' = nextPc
    /\ UNCHANGED <<prog, thrown, mainState, queryVars, mem, clock, toolRuns,
                   toolReturn>>

\* main -> runCollaborativeExample -> executeComplexTask, up to its first
\* await: the manager is asked for a plan
ComplexTaskStart ==
    /\ prog = "advanced"
    /\ pc = "start"
    /\ inflight' = inflight \cup
          {DriverCall(nextId, "advanced", AdvancedAgents[TaskAgents[1]], "prompt")}
    /\ nextId' = nextId + 1
    /\ events' = events \o <<Ev("print", "starting", 0),
                             Ev("call", AdvancedAgents[TaskAgents[1]], 0)>>
    /\ pc' = "plan"
    /\ UNCHANGED <<prog, thrown, mainState, queryVars, advVars>>

\* Step 1 resolved; step 2: the researcher gathers information
PlanReturns ==
    /\ prog = "advanced"
    /\ pc = "plan"
    /\ \E c \in DriverCalls, r \in TaskReplies :
          AdvStep(c, r, "plan", <<Ev("print", "plan", 0)>>,
                  "advanced", TaskAgents[2], "research")
    /\ advResult' = advResult

\* Step 2 resolved; step 3: the analyst processes the information
ResearchReturns ==
    /\ prog = "advanced"
    /\ pc = "research"
    /\ \E c \in DriverCalls, r \in TaskReplies :
          AdvStep(c, r, "researchResult", <<Ev("print", "research", 0)>>,
                  "advanced", TaskAgents[3], "analyze")
    /\ advResult' = advResult

\* Step 3 resolved; step 4: the writer creates the report
AnalystReturns ==
    /\ prog = "advanced"
    /\ pc = "analyze"
    /\ \E c \in DriverCalls, r \in TaskReplies :
          AdvStep(c, r, "analysisResult", <<Ev("print", "analysis", 0)>>,
                  "advanced", TaskAgents[4], "write")
    /\ advResult' = advResult

\* Step 4 resolved; step 5: the manager reviews
WriterReturns ==
    /\ prog = "advanced"
    /\ pc = "write"
    /\ \E c \in DriverCalls, r \in TaskReplies :
          AdvStep(c, r, "report", <<Ev("print", "report", 0)>>,
                  "advanced", TaskAgents[5], "review")
    /\ advResult' = advResult

\* Step 5 resolved: executeComplexTask returns its result object,
\* runCollaborativeExample prints it, and main goes on to
\* demonstrateCommunication, whose first call goes to the researcher
ReviewReturns ==
    /\ prog = "advanced"
    /\ pc = "review"
    /\ \E c \in DriverCalls, r \in TaskReplies :
          /\ AdvStep(c, r, "finalResult",
                     <<Ev("print", "final_results", 0),
                       Ev("print", "demonstration", 0)>>,
                     "communication", CommAgents[1], "comm_researcher")
          /\ advResult' = TaskResult((("finalResult" :> r) @@ task), mem["advanced"])

\* response1 resolved; the analyst is called
CommResearcherReturns ==
    /\ prog = "advanced"
    /\ pc = "comm_researcher"
    /\ \E c \in DriverCalls, r \in TaskReplies :
          AdvStep(c, r, "response1", <<Ev("print", "researcher", 0)>>,
                  "communication", CommAgents[2], "comm_analyst")
    /\ advResult' = advResult

\* response2 resolved; the writer is called
CommAnalystReturns ==
    /\ prog = "advanced"
    /\ pc = "comm_analyst"
    /\ \E c \in DriverCalls, r \in TaskReplies :
          AdvStep(c, r, "response2", <<Ev("print", "analyst", 0)>>,
                  "communication", CommAgents[3], "comm_writer")
    /\ advResult' = advResult

\* response3 resolved: demonstrateCommunication returns and main completes
CommWriterReturns ==
    /\ prog = "advanced"
    /\ pc = "comm_writer"
    /\ ToolCalls = {}
    /\ \E c \in DriverCalls, r \in TaskReplies :
          /\ task' = ("response3" :> r) @@ task
          /\ inflight' = inflight \ Awaited(c)
          /\ events' = events \o <<Ev("return", c.agent, 0),
                                   Ev("print", "writer", 0)>>
    /\ pc' = "done"
    /\ mainState' = "completed"
    /\ UNCHANGED <<prog, nextId, thrown, queryVars, mem, clock, toolRuns,
                   toolReturn, advResult>>

\* a call a driver awaits rejects with v: no statement of the driver catches
\* it, main rejects and main().catch(console.error) prints the value
AdvCallThrows ==
    /\ prog = "advanced"
    /\ pc \in {"plan", "research", "analyze", "write", "review",
               "comm_researcher", "comm_analyst", "comm_writer"}
    /\ \E c \in DriverCalls, v \in Throwables :
          /\ inflight' = inflight \ Awaited(c)
          /\ thrown' = v
          /\ events' = events \o <<Ev("throw", c.agent, 0), Ev("print", "error", 0)>>
    /\ pc' = "done"
    /\ mainState' = "rejected"
    /\ UNCHANGED <<prog, nextId, queryVars, advVars>>

-----------------------------------------------------------------------------
Init ==
    /\ prog \in {"main", "call", "advanced"}
    /\ session \in (CASE prog = "main"     -> {MainSession}
                      [] prog = "call"     -> CallSessions
                      [] prog = "advanced" -> {<<>>})
    /\ idx = 1
    /\ pc = IF prog = "advanced" THEN "start" ELSE "loop"
    /\ inflight = {}
    /\ nextId = 1
    /\ analysis = NoReply
    /\ responses = <<>>
    /\ results = <<>>
    /\ events = <<>>
    /\ thrown = NoThrow
    /\ mainState = "running"
    /\ mem = [advanced |-> NewSharedMemory, communication |-> NewSharedMemory]
    /\ clock = 0
    /\ toolRuns = 0
    /\ toolReturn = NoToolReturn
    /\ task = <<>>
    /\ advResult = NoResult

Next ==
    \/ ProcessQueryStart
    \/ AnalysisReturns
    \/ HistoryReturns
    \/ ScienceReturns
    \/ MathReturns
    \/ FallbackReturns
    \/ CallThrows
    \/ LoopEnd
    \/ ComplexTaskStart
    \/ PlanReturns
    \/ ResearchReturns
    \/ AnalystReturns
    \/ WriterReturns
    \/ ReviewReturns
    \/ CommResearcherReturns
    \/ CommAnalystReturns
    \/ CommWriterReturns
    \/ AdvCallThrows
    \/ MemoryRead
    \/ MemoryWrite
    \/ CommunicateStart
    \/ CommunicateReturns
    \/ CommunicateThrows

Spec == Init /\ [][Next]_vars

-----------------------------------------------------------------------------
(* Properties *)

RECURSIVE SeqToSet(_)
SeqToSet(s) == IF s = <<>> THEN {} ELSE {Head(s)} \cup SeqToSet(Tail(s))

IsPrefix(s, t) == Len(s) <= Len(t) /\ SubSeq(t, 1, Len(s)) = s

\* the names of the agents called during run i of the query loop, in order
RECURSIVE Who(_)
Who(es) == IF es = <<>> THEN <<>> ELSE <<Head(es).who>> \o Who(Tail(es))

CallsOfRun(i) == Who(SelectSeq(events, LAMBDA e : e.e = "call" /\ e.run = i))

\* the agents called in run i after the coordinator's analysis call
RoutedOfRun(i) == IF CallsOfRun(i) = <<>> THEN <<>> ELSE Tail(CallsOfRun(i))

\* the conditions as the routing contract states them
ContainsAny(q, kws) == \E kw \in kws : Includes(ToLowerCase(q), kw)
WantsHistory(q) == ContainsAny(q, {KwHistory, KwHistorical})
WantsScience(q) == ContainsAny(q, {KwScience, KwScientific})
WantsMath(q) ==
    \/ ContainsAny(q, {KwMath, KwCalculate, KwEquation})
    \/ \E i \in 1..Len(q) : q[i] \in {"0","1","2","3","4","5","6","7","8","9"}

\* the specialists the contract wants called for q, in program order
WantedSpecialists(q) ==
    (IF WantsHistory(q) THEN <<"History Expert">> ELSE <<>>) \o
    (IF WantsScience(q) THEN <<"Science Expert">> ELSE <<>>) \o
    (IF WantsMath(q)    THEN <<"Math Expert">>    ELSE <<>>)

Started(i) == i \in 1..Len(session) /\ CallsOfRun(i) # <<>>
Returned(i) == i \in 1..Len(results)

\* every subset of the three specialists is what the three if statements of
\* the no-tools router select for some query
RoutableSubsets ==
    \A S \in SUBSET {"history", "science", "math"} :
        \E q \in Queries :
            {k \in {"history", "science", "math"} : Triggered("notools", k, q, <<>>)} = S

\* C1: in the no-tools system a specialist is called only if its keyword
\* test holds on the query, and a processQuery call that returned has called
\* every specialist whose test holds: History Expert iff the lower-cased
\* query contains 'history' or 'historical', Science Expert iff it contains
\* 'science' or 'scientific', Math Expert iff it contains 'math',
\* 'calculate' or 'equation' or the raw query holds a digit; the three
\* tests are independent of each other: every subset of the specialists is
\* selected by some query.
C1_KeywordRouting ==
    /\ RoutableSubsets
    /\ \A i \in 1..Len(session) :
           (prog \in {"main", "call"} /\ session[i].variant = "notools") =>
           LET q   == session[i].query
               inv == SeqToSet(RoutedOfRun(i))
           IN  /\ ("History Expert" \in inv => WantsHistory(q))
               /\ ("Science Expert" \in inv => WantsScience(q))
               /\ ("Math Expert" \in inv => WantsMath(q))
               /\ Returned(i) =>
                     /\ (WantsHistory(q) => "History Expert" \in inv)
                     /\ (WantsScience(q) => "Science Expert" \in inv)
                     /\ (WantsMath(q) => "Math Expert" \in inv)

\* a no-tools call that returned after calling all three specialists, for a
\* query that holds its keywords in mixed case only
C1_Witness ==
    /\ prog = "call"
    /\ Returned(1)
    /\ session[1].variant = "notools"
    /\ RoutedOfRun(1) = <<"History Expert", "Science Expert", "Math Expert">>
    /\ ~Includes(session[1].query, KwScience)
    /\ ~Includes(session[1].query, KwHistory)

\* C2: when main has run its four example queries, the history query was
\* answered by the History Expert, the science query by the Science Expert,
\* the math query by the Math Expert and the complex query by the
\* Coordinator (its agentResponses holds a coordinator response).
C2_ExamplesAnswered ==
    (prog = "main" /\ Len(results) = Len(exampleQueries)) =>
        /\ "history" \in DOMAIN results[1].agentResponses
        /\ "science" \in DOMAIN results[2].agentResponses
        /\ "math" \in DOMAIN results[3].agentResponses
        /\ "coordinator" \in DOMAIN results[4].agentResponses

\* C3: in every result processQuery returned, agentResponses is not empty,
\* it holds a coordinator response iff no specialist test held on the query,
\* and a coordinator response never comes with a specialist response.
C3_ResponsesShape ==
    \A i \in 1..Len(results) :
        LET keys == DOMAIN results[i].agentResponses
            q    == results[i].query
        IN  /\ keys # {}
            /\ "coordinator" \in keys <=>
                  ~(WantsHistory(q) \/ WantsScience(q) \/ WantsMath(q))
            /\ "coordinator" \in keys => keys = {"coordinator"}

\* both variants returned a result that holds only the coordinator's
\* response, for a query that is not empty
C3_Witness ==
    /\ Len(results) = 2
    /\ DOMAIN results[1].agentResponses = {"coordinator"}
    /\ session[2].variant = "tools"
    /\ DOMAIN results[2].agentResponses = {"coordinator"}
    /\ session[1].query # <<>>

\* C4: two processQuery runs of the same system on the same query call the
\* same agents in the same order and return agentResponses with the same
\* keys, whatever the coordinator's analysis replies were; the analysis
\* reply is found in coordinatorAnalysis only.
C4_AnalysisDoesNotRoute ==
    \A i, j \in 1..Len(session) :
        (/\ Started(i) /\ Started(j)
         /\ session[i] = session[j]) =>
            /\ \/ IsPrefix(CallsOfRun(i), CallsOfRun(j))
               \/ IsPrefix(CallsOfRun(j), CallsOfRun(i))
            /\ (Returned(i) /\ Returned(j)) =>
                  /\ CallsOfRun(i) = CallsOfRun(j)
                  /\ DOMAIN results[i].agentResponses = DOMAIN results[j].agentResponses

\* two returned runs on one query that holds 'history', with different
\* analysis replies
C4_Witness ==
    /\ Len(results) = 2
    /\ session[1] = session[2]
    /\ results[1].coordinatorAnalysis # results[2].coordinatorAnalysis
    /\ WantsHistory(session[1].query)

\* C5: at most one call issued by a driver is in flight, and a driver issues
\* a call only at its start or after its previous call returned.
C5_Sequential ==
    LET d == SelectSeq(events, LAMBDA e : e.e \in {"call", "return", "throw"})
    IN  /\ Cardinality(DriverCalls) <= 1
        /\ \A i \in 1..Len(d) :
              IF d[i].e = "call"
              THEN i = 1 \/ d[i - 1].e = "return"
              ELSE i > 1 /\ d[i - 1].e = "call" /\ d[i - 1].who = d[i].who
        /\ (DriverCalls # {} <=> (d # <<>> /\ d[Len(d)].e = "call"))

\* the analyst's call of demonstrateCommunication is in flight, alone among
\* the driver's calls, while a call issued by a tool is in flight too
C5_Witness ==
    /\ prog = "advanced"
    /\ pc = "comm_analyst"
    /\ Cardinality(DriverCalls) = 1
    /\ ToolCalls # {}

IsPrint(e, what) == e.e = "print" /\ e.who = what

ThrowAt == {i \in 1..Len(events) : events[i].e = "throw"}

\* after the failure the driver issues no call and processes no query
StoppedAtFailure ==
    /\ pc = "done"
    /\ inflight = {}
    /\ Cardinality(ThrowAt) = 1
    /\ \A i \in ThrowAt : \A j \in (i + 1)..Len(events) :
          IsPrint(events[j], "error") \/ IsPrint(events[j], "setup")
    /\ Len(results) = idx - 1

\* C6 as stated: whatever value an agent call throws, main completes
\* normally (its promise never rejects), the failed call is not retried and
\* no later example query is processed.
C6_MainNeverRejects ==
    prog = "main" =>
        /\ mainState # "rejected"
        /\ thrown # NoThrow => StoppedAtFailure

\* C6 amended: when the thrown value is an Error (it carries a message
\* string) main prints it and completes normally; when it is null or
\* undefined, or has no message, the catch block throws itself and main's
\* promise rejects; in every case the failed call is not retried and no
\* later example query is processed.
C6_ErrorsCaught ==
    prog = "main" =>
        /\ thrown.kind = "Error" =>
              /\ mainState = "completed"
              /\ \E i \in 1..Len(events) : IsPrint(events[i], "error")
        /\ thrown.kind \in {"nullish", "nomessage"} => mainState = "rejected"
        /\ thrown # NoThrow => StoppedAtFailure

\* an Error thrown while the second example query is processed
C6_Witness ==
    /\ prog = "main"
    /\ thrown.kind = "Error"
    /\ idx = 2
    /\ mainState = "completed"

\* C7: the setup instructions are printed iff an error was caught whose
\* message contains 'OPENAI_API_KEY'; never on a run without error; and
\* right after the error line.
C7_SetupInstructions ==
    prog = "main" =>
        LET setup == {i \in 1..Len(events) : IsPrint(events[i], "setup")} IN
        /\ setup # {} <=> (thrown.kind = "Error" /\ Includes(thrown.message, KwApiKey))
        /\ thrown = NoThrow => setup = {}
        /\ \A i \in setup : i > 1 /\ IsPrint(events[i - 1], "error")

\* the instructions were printed, for an error of the third example query
C7_Witness ==
    /\ prog = "main"
    /\ idx = 3
    /\ \E i \in 1..Len(events) : IsPrint(events[i], "setup")

Systems == {"advanced", "communication"}

\* C8: no step removes, reorders or changes an entry of a conversation
\* history; a step adds at most one entry, at the end, made of an agent, a
\* message and a timestamp; and the step in which communicate_with_agent
\* gets its reply adds exactly one.
C8_HistoryAppendOnly ==
    [][\A s \in Systems :
          LET h  == mem[s].conversationHistory
              h2 == mem'[s].conversationHistory
          IN  /\ IsPrefix(h, h2)
              /\ Len(h2) <= Len(h) + 1
              /\ Len(h2) = Len(h) + 1 =>
                    DOMAIN h2[Len(h2)] = {"agent", "message", "timestamp"}
              /\ (\E c \in ToolCalls :
                     /\ c \notin inflight'
                     /\ c.sys = s
                     /\ toolReturn'.kind = "response") =>
                    Len(h2) = Len(h) + 1]_vars

\* a history of two different entries
C8_Witness ==
    \E s \in Systems :
        /\ Len(mem[s].conversationHistory) = 2
        /\ mem[s].conversationHistory[1] # mem[s].conversationHistory[2]

Pos(e, who) == {i \in 1..Len(events) : events[i].e = e /\ events[i].who = who}

\* the index of the k-th event of kind e about who, 0 if there is none
Kth(e, who, k) ==
    IF Cardinality(Pos(e, who)) >= k
    THEN CHOOSE i \in Pos(e, who) : Cardinality({j \in Pos(e, who) : j <= i}) = k
    ELSE 0

\* C9: in executeComplexTask the researcher's call has returned before the
\* analyst is called, the analyst's before the writer is called, the
\* writer's before the manager is called for the review, and the result is
\* returned only after the review returned; after a failed step no call is
\* issued.
C9_Workflow ==
    prog = "advanced" =>
        LET rr  == Kth("return", "Researcher", 1)
            ac  == Kth("call", "Analyst", 1)
            ar  == Kth("return", "Analyst", 1)
            wc  == Kth("call", "Writer", 1)
            wr  == Kth("return", "Writer", 1)
            mc  == Kth("call", "Manager", 2)
            mr  == Kth("return", "Manager", 2)
            fin == Kth("print", "final_results", 1)
        IN  /\ ac # 0 => (rr # 0 /\ rr < ac)
            /\ wc # 0 => (ar # 0 /\ ar < wc)
            /\ mc # 0 => (wr # 0 /\ wr < mc)
            /\ advResult.returned <=> fin # 0
            /\ fin # 0 => (mr # 0 /\ mr < fin)
            /\ \A i \in ThrowAt : \A j \in (i + 1)..Len(events) :
                  events[j].e # "call"

\* executeComplexTask has returned its result
C9_Witness ==
    /\ prog = "advanced"
    /\ advResult.returned
    /\ Kth("return", "Writer", 1) # 0

RECURSIVE RouteFrom(_, _, _, _)
\* the stages whose calls the router of variant v issues for q from
\* position i on
RouteFrom(v, q, i, resp) ==
    LET n == NextCall(v, q, i, resp) IN
    IF n = 0 THEN <<>>
    ELSE <<Stages[n]>> \o RouteFrom(v, q, n + 1, (Stages[n] :> NoReply) @@ resp)

RECURSIVE AgentNames(_, _)
AgentNames(v, ks) ==
    IF ks = <<>> THEN <<>>
    ELSE <<AgentsOf(v)[Head(ks)]>> \o AgentNames(v, Tail(ks))

Printed(v) == IF v = Undefined THEN "undefined" ELSE v.s

\* C11: a read by access_memory reports the value written last under the
\* key, for every string including the empty one and for a write that
\* omitted the value; it reports 'not found' iff the key was never written;
\* and it changes neither the map nor the history.
C11_FaithfulView ==
    [][MemoryRead =>
          \A c \in inflight :
             LET m == mem[c.sys]
                 k == toolReturn'.key
             IN  /\ toolReturn'.kind = "read"
                 /\ toolReturn'.text = "not found" <=> k \notin DOMAIN m.data
                 /\ k \in DOMAIN m.data => toolReturn'.text = Printed(m.data[k])
                 /\ mem' = mem]_vars

\* the place of an agent in the order processQuery calls them after the
\* analysis
Rank(who) ==
    CASE who = "History Expert" -> 1
      [] who = "Science Expert" -> 2
      [] who = "Math Expert"    -> 3
      [] who = "Coordinator"    -> 4

Max(a, b) == IF a >= b THEN a ELSE b

\* C12: in every processQuery run the first call is the Coordinator's
\* analysis call and no later call is an analysis call; the calls after it
\* are specialists in the order history, science, math, each at most once,
\* followed by nothing but the fallback Coordinator call, which is last; a
\* run that returned made exactly 1 + max(1, number of triggered
\* specialists) calls, at least 2 and at most 4.
C12_CallCountAndOrder ==
    /\ \A c \in DriverCalls :
          c.form = "analysis" => (pc = "analysis" /\ Len(CallsOfRun(idx)) = 1)
    /\ \A i \in 1..Len(session) :
          (prog \in {"main", "call"} /\ Started(i)) =>
             LET cs   == CallsOfRun(i)
                 rest == RoutedOfRun(i)
                 q    == session[i].query
             IN  /\ cs[1] = "Coordinator"
                 /\ \A j \in 1..(Len(rest) - 1) : Rank(rest[j]) < Rank(rest[j + 1])
                 /\ Returned(i) =>
                       /\ Len(cs) = 1 + Max(1, Len(WantedSpecialists(q)))
                       /\ Len(cs) \in 2..4

\* a no-tools run that returned after four calls, the Math Expert being
\* called for a digit
C12_Witness ==
    /\ prog = "call"
    /\ session[1].variant = "notools"
    /\ Returned(1)
    /\ Len(CallsOfRun(1)) = 4
    /\ DigitTest(session[1].query)
    /\ ~MathTest(SelectSeq(session[1].query, LAMBDA ch : ~IsDigit(ch)))

-----------------------------------------------------------------------------
(* The query loop alone, with the scheduling it runs under *)

\* the scripts that iterate processQuery over a list of queries: main, and
\* the callers that call it twice in a row
LoopInit == Init /\ prog \in {"main", "call"} /\ Len(session) > 1

LoopNext ==
    \/ ProcessQueryStart
    \/ AnalysisReturns
    \/ HistoryReturns
    \/ ScienceReturns
    \/ MathReturns
    \/ FallbackReturns
    \/ CallThrows
    \/ LoopEnd

\* the steps the driver takes by itself: the event loop runs a continuation
\* that is ready
DriverSteps == ProcessQueryStart \/ LoopEnd

\* the steps that resume the driver with the reply of the call it awaits
CallReturns ==
    \/ AnalysisReturns
    \/ HistoryReturns
    \/ ScienceReturns
    \/ MathReturns
    \/ FallbackReturns

\* a ready continuation is run, and a call that stays in flight is settled
LiveSpec ==
    /\ LoopInit
    /\ [][LoopNext]_vars
    /\ WF_vars(DriverSteps)
    /\ WF_vars(CallReturns)

\* the runs the loop has started, in the order of their first line
RunsStarted ==
    LET ps == SelectSeq(events, LAMBDA e : IsPrint(e, "processing"))
    IN  [j \in 1..Len(ps) |-> ps[j].run]

\* the keys of the responses the if statements of the router of variant v
\* fill for q, starting from an empty responses object
KeysFor(v, q) == SeqToSet(RouteFrom(v, q, 1, <<>>))

\* KeysFor of every query a session holds
RouteKeys ==
    [v \in Variants, q \in Queries \cup SeqToSet(exampleQueries) |-> KeysFor(v, q)]

\* the order and the results of the session so far
SessionInOrder ==
    /\ prog = "main" =>
          [i \in 1..Len(session) |-> session[i].query] = exampleQueries
    /\ Len(results) <= Len(session)
    /\ RunsStarted = [j \in 1..Len(RunsStarted) |-> j]
    /\ Len(RunsStarted) \in {Len(results), Len(results) + 1}
    /\ Len(RunsStarted) <= Len(session)
    /\ \A i \in 1..Len(results) :
          /\ results[i].query = session[i].query
          /\ DOMAIN results[i].agentResponses =
                RouteKeys[session[i].variant, session[i].query]
          /\ prog = "main" =>
                Cardinality(Pos("print", "results") \cap
                    {j \in 1..Len(events) : events[j].run = i}) = 1
    /\ \A j \in 1..Len(events) :
          (prog = "main" /\ events[j].e = "call" /\ events[j].run > 1) =>
             \E k \in 1..(j - 1) :
                /\ IsPrint(events[k], "results")
                /\ events[k].run = events[j].run - 1

\* the loop is over after the last query of the list
SessionOver ==
    /\ pc = "done"
    /\ mainState = "completed"
    /\ inflight = {}
    /\ Len(results) = Len(session)

\* C13: when no agent call fails, runInteractiveSession terminates, having
\* processed the four example queries once each in the listed order; the
\* result of query i is logged before the first agent call of query i + 1;
\* and the result of a query holds the responses that query triggers and no
\* other, whatever queries were processed before it.  The order, the
\* results and the termination are checked for every list of queries the
\* loop iterates, the logging for runInteractiveSession.
C13_SessionTerminates ==
    /\ []SessionInOrder
    /\ [](thrown = NoThrow) => <>SessionOver

\* the session is over, and the second result holds nothing of the first
C13_Witness ==
    /\ prog = "main"
    /\ SessionOver
    /\ Len(results) = 4
    /\ Cardinality(Pos("print", "results")) = 4
    /\ "history" \in DOMAIN results[1].agentResponses
    /\ "history" \notin DOMAIN results[2].agentResponses

\* whether the lower-cased targetAgent is a role key of the system's agents
IsRoleKey(sys, targetAgent) == ToLowerCase(targetAgent) \in DOMAIN SystemAgents(sys)

HistoryLen(s) == Len(mem[s].conversationHistory)

\* C14: an execution of communicate_with_agent whose lower-cased targetAgent
\* is no role key of the system returns the 'not found' string as a value
\* (it does not throw), calls no agent and leaves the history and the map
\* unchanged; one whose target is a role key, in any case, calls that agent
\* and appends exactly one entry when the reply arrives; and the history
\* grows in no other step.
C14_AppendsIffFound ==
    [][/\ CommunicateStart =>
             /\ mem' = mem
             /\ IF inflight' # inflight
                THEN \A c \in inflight' \ inflight :
                        /\ IsRoleKey(c.sys, c.target)
                        /\ c.agent = SystemAgents(c.sys)[ToLowerCase(c.target)]
                ELSE /\ toolReturn'.tool = "communicate_with_agent"
                     /\ toolReturn'.kind = "not_found"
                     /\ \A c \in inflight : ~IsRoleKey(c.sys, toolReturn'.target)
       /\ CommunicateReturns =>
             \E s \in Systems :
                /\ HistoryLen(s)' = HistoryLen(s) + 1
                /\ mem'[s].data = mem[s].data
       /\ (\E s \in Systems : HistoryLen(s)' # HistoryLen(s)) => CommunicateReturns
      ]_vars

=============================================================================
